---- MODULE Spec2Model ----
(***************************************************************************)
(* Polynomial<T> of polynomial/src/lib.rs, with T a signed machine integer *)
(* (the tests instantiate T with i32, i64 and f64; the integer case is the *)
(* exact one).  A Polynomial is the record [coefs_ |-> <<c0, c1, ...>>],   *)
(* element i+1 of the sequence being the coefficient of x^i (Rust index i).*)
(* A panic is the record [panic |-> message].                              *)
(*                                                                         *)
(* The library is a set of pure functions; they are the lower-case         *)
(* operators new, add, mul, eval_at, single_term_poly, interpolate_from.   *)
(* The state machine is a caller: it constructs one polynomial p (new or   *)
(* interpolate_from), then calls one method on it, and records every call  *)
(* with its arguments and its outcome in `last`.                           *)
(***************************************************************************)
EXTENDS Integers, Sequences, FiniteSets

VARIABLES
    pc,     \* caller position: "start", "constructed", "done", "panicked"
    p,      \* the polynomial the caller holds (NoPoly before construction)
    last    \* the last call: [op, <arguments>, out]

vars == <<pc, p, last>>

----------------------------------------------------------------------------
(* Bounds of the model *)

MaxLen == 3      \* longest coefficient vector handed to Polynomial::new
MaxVal == 1      \* coefficients and y-coordinates range over -1..MaxVal
MaxPts == 2      \* most points handed to interpolate_from
MaxX == 2        \* x-coordinates of points are 0..MaxX, eval_at points -MaxX..MaxX

----------------------------------------------------------------------------
(* The scalar type T *)

Zero == 0        \* T::default() / T::zero()
One == 1         \* T::one()

Vals == (-1)..MaxVal
PointXs == 0..MaxX
EvalXs == (-MaxX)..MaxX

Abs(n) == IF n < 0 THEN -n ELSE n
Max(a, b) == IF a >= b THEN a ELSE b

\* Rust's integer `/` for a non-zero divisor: the quotient rounded toward zero.
TruncDiv(a, b) ==
    IF (a < 0) = (b < 0) THEN Abs(a) \div Abs(b) ELSE -(Abs(a) \div Abs(b))

Ok(v) == [val |-> v]
DivideByZero == [panic |-> "attempt to divide by zero"]
IsPanic(r) == "panic" \in DOMAIN r

\* A division that treats a zero divisor as yielding zero instead of panicking.
div_unchecked(a, b) == Ok(IF b = Zero THEN Zero ELSE TruncDiv(a, b))

\* `a / b` on T: an integer division by zero panics, in every build profile.
div(a, b) == IF b = Zero THEN DivideByZero ELSE Ok(TruncDiv(a, b))

----------------------------------------------------------------------------
(* Polynomial::new *)

Polynomial(c) == [coefs_ |-> c]
NoPoly == [none |-> TRUE]

\* The counting loop without the stop at the first element.
RECURSIVE CountAllTrailingZeros(_, _, _)
CountAllTrailingZeros(coefs, i, cnt) ==
    IF i < 1 THEN cnt
    ELSE IF coefs[i] # Zero THEN cnt
    ELSE CountAllTrailingZeros(coefs, i - 1, cnt + 1)

\* The counting loop of new: `i` is the 1-based position the reversed
\* peekable iterator yields next (0 when it is exhausted), `cnt` the count.
RECURSIVE CountTrailingZeros(_, _, _)
CountTrailingZeros(coefs, i, cnt) ==
    IF i < 1 THEN cnt                       \* c_it.peek().is_some() fails
    ELSE IF coefs[i] # Zero THEN cnt        \* non-zero element: break
    ELSE IF i - 1 < 1 THEN cnt              \* that was the first element: break
    ELSE CountTrailingZeros(coefs, i - 1, cnt + 1)

\* new without the trimming: the vector is stored as given.
new_no_trim(coefs) == Polynomial(coefs)

\* new whose count also takes the element that stopped the scan.
new_overtrim(coefs) ==
    LET cnt == CountTrailingZeros(coefs, Len(coefs), 0)
        n == IF Len(coefs) - cnt > 1 THEN Len(coefs) - cnt - 1 ELSE Len(coefs) - cnt
    IN  Polynomial(SubSeq(coefs, 1, n))

\* coefs.drain(..(coefs.len() - cnt)).collect(): the first len - cnt elements.
\* cnt <= len always, so the usize subtraction cannot underflow.
new(coefs) ==
    LET cnt == CountTrailingZeros(coefs, Len(coefs), 0)
    IN  Polynomial(SubSeq(coefs, 1, Len(coefs) - cnt))

----------------------------------------------------------------------------
(* Polynomial::add *)

\* Vec::get(i) with the element defaulted to T::default() when i is out of range
\* (i is the 1-based position).
get_or_default(v, i) == IF i <= Len(v) THEN v[i] ELSE Zero

\* The loop of add over res_coefs.iter_mut().enumerate(), from position i on.
RECURSIVE add_loop(_, _, _, _)
add_loop(res_coefs, a, b, i) ==
    IF i > Len(res_coefs) THEN res_coefs
    ELSE add_loop([res_coefs EXCEPT ![i] = get_or_default(a, i) + get_or_default(b, i)],
                  a, b, i + 1)

\* add sized by the shorter operand.
add_min_len(self, other) ==
    LET n == IF Len(self.coefs_) <= Len(other.coefs_)
             THEN Len(self.coefs_) ELSE Len(other.coefs_)
    IN  new(add_loop([k \in 1..n |-> Zero], self.coefs_, other.coefs_, 1))

add(self, other) ==
    LET max_len == Max(Len(self.coefs_), Len(other.coefs_))
    IN  new(add_loop([k \in 1..max_len |-> Zero], self.coefs_, other.coefs_, 1))

----------------------------------------------------------------------------
(* Polynomial::mul *)

\* The inner loop storing each product instead of accumulating it.
RECURSIVE mul_inner_store(_, _, _, _, _)
mul_inner_store(res_coefs, a, b, i, j) ==
    IF j > Len(b) THEN res_coefs
    ELSE mul_inner_store([res_coefs EXCEPT ![i + j - 1] = a[i] * b[j]], a, b, i, j + 1)

\* The inner loop of mul: res_coefs[i + j] += a * b (positions are 1-based
\* here, so Rust index i + j is position i + j - 1).
RECURSIVE mul_inner(_, _, _, _, _)
mul_inner(res_coefs, a, b, i, j) ==
    IF j > Len(b) THEN res_coefs
    ELSE mul_inner([res_coefs EXCEPT ![i + j - 1] = @ + a[i] * b[j]], a, b, i, j + 1)

RECURSIVE mul_outer(_, _, _, _)
mul_outer(res_coefs, a, b, i) ==
    IF i > Len(a) THEN res_coefs
    ELSE mul_outer(mul_inner(res_coefs, a, b, i, 1), a, b, i + 1)

\* The length self.len() + other.len() - 1 is a usize: it underflows only when
\* both operands are empty, and `other` is never empty in this model.
mul(self, other) ==
    new(mul_outer([k \in 1..(Len(self.coefs_) + Len(other.coefs_) - 1) |-> Zero],
                  self.coefs_, other.coefs_, 1))

----------------------------------------------------------------------------
(* Polynomial::eval_at *)

\* The loop of eval_at over coefs_.iter().rev(): `i` is the next position.
RECURSIVE eval_loop(_, _, _, _)
eval_loop(coefs, x, i, sum) ==
    IF i < 1 THEN sum ELSE eval_loop(coefs, x, i - 1, sum * x + coefs[i])

\* The same loop over coefs_.iter(), without the rev().
RECURSIVE eval_loop_forward(_, _, _, _)
eval_loop_forward(coefs, x, i, sum) ==
    IF i > Len(coefs) THEN sum ELSE eval_loop_forward(coefs, x, i + 1, sum * x + coefs[i])

eval_at_forward(self, x) == eval_loop_forward(self.coefs_, x, 1, Zero)

eval_at(self, x) == eval_loop(self.coefs_, x, Len(self.coefs_), Zero)

----------------------------------------------------------------------------
(* Polynomial::single_term_poly and Polynomial::interpolate_from *)

\* The loop of single_term_poly over points.iter().enumerate(), from j on.
\* A point is <<x, y>>.  The result is the term, or the panic of a division.
RECURSIVE single_term_loop(_, _, _, _)
single_term_loop(term, points, idx, j) ==
    IF j > Len(points) THEN term
    ELSE IF j = idx THEN single_term_loop(term, points, idx, j + 1)
    ELSE LET xi == points[idx][1]
             xj == points[j][1]
             c0 == div(-xj, xi - xj)
             c1 == div(One, xi - xj)
         IN  IF IsPanic(c0) THEN c0
             ELSE IF IsPanic(c1) THEN c1
             ELSE single_term_loop(mul(term, new(<<c0.val, c1.val>>)), points, idx, j + 1)

single_term_poly(points, idx) ==
    LET term == single_term_loop(new(<<One>>), points, idx, 1)
        yi == points[idx][2]
    IN  IF IsPanic(term) THEN term ELSE mul(term, new(<<yi>>))

\* terms.iter().fold(acc, |acc, x| acc.add(x)), from term i on.
RECURSIVE fold_add(_, _, _)
fold_add(acc, terms, i) ==
    IF i > Len(terms) THEN acc ELSE fold_add(add(acc, terms[i]), terms, i + 1)

\* interpolate_from whose fold is seeded with a polynomial of no coefficients.
interpolate_from_empty_seed(points) ==
    LET terms == [idx \in 1..Len(points) |-> single_term_poly(points, idx)]
    IN  IF \E idx \in 1..Len(points) : IsPanic(terms[idx])
        THEN terms[CHOOSE idx \in 1..Len(points) :
                      /\ IsPanic(terms[idx])
                      /\ \A k \in 1..(idx - 1) : ~IsPanic(terms[k])]
        ELSE fold_add(Polynomial(<<>>), terms, 1)

\* The terms are all collected before the fold; the first term that panics
\* ends the call.
interpolate_from(points) ==
    LET terms == [idx \in 1..Len(points) |-> single_term_poly(points, idx)]
    IN  IF \E idx \in 1..Len(points) : IsPanic(terms[idx])
        THEN terms[CHOOSE idx \in 1..Len(points) :
                      /\ IsPanic(terms[idx])
                      /\ \A k \in 1..(idx - 1) : ~IsPanic(terms[k])]
        ELSE fold_add(new(<<Zero>>), terms, 1)

----------------------------------------------------------------------------
(* Inputs *)

SeqsUpTo(S, n) == UNION {[1..k -> S] : k \in 0..n}

\* Coefficient vectors of length 1..MaxLen.
CoefSeqs == {s \in SeqsUpTo(Vals, MaxLen) : Len(s) >= 1}

\* The polynomials a caller can hold as the `other` operand.
Polys == {new(s) : s \in CoefSeqs}

Points == PointXs \X Vals
PointLists == SeqsUpTo(Points, MaxPts)
HasDuplicateX(points) ==
    \E i, j \in 1..Len(points) : i # j /\ points[i][1] = points[j][1]

\* Non-empty lists of points with pairwise-distinct x-coordinates.
DistinctPoints == {pts \in PointLists : Len(pts) >= 1 /\ ~HasDuplicateX(pts)}
DuplicatePoints == {pts \in PointLists : HasDuplicateX(pts)}

----------------------------------------------------------------------------
(* The caller *)

Init ==
    /\ pc = "start"
    /\ p = NoPoly
    /\ last = [op |-> "init", out |-> NoPoly]

\* let p = Polynomial::new(coefs);
New ==
    /\ pc = "start"
    /\ \E coefs \in CoefSeqs :
          /\ p' = new(coefs)
          /\ last' = [op |-> "new", coefs |-> coefs, out |-> new(coefs)]
    /\ pc' = "constructed"

\* let p = Polynomial::interpolate_from(points);  A panic unwinds the caller.
InterpolateFrom ==
    /\ pc = "start"
    /\ \E points \in DistinctPoints :
          LET r == interpolate_from(points)
          IN  /\ last' = [op |-> "interpolate_from", points |-> points, out |-> r]
              /\ IF IsPanic(r)
                 THEN pc' = "panicked" /\ p' = p
                 ELSE pc' = "constructed" /\ p' = r

\* let p = p.add(&other);
Add ==
    /\ pc = "constructed"
    /\ \E other \in Polys :
          /\ p' = add(p, other)
          /\ last' = [op |-> "add", self |-> p, other |-> other, out |-> add(p, other)]
    /\ pc' = "done"

\* let p = p.mul(&other);
Mul ==
    /\ pc = "constructed"
    /\ \E other \in Polys :
          /\ p' = mul(p, other)
          /\ last' = [op |-> "mul", self |-> p, other |-> other, out |-> mul(p, other)]
    /\ pc' = "done"

\* let y = p.eval_at(x);
EvalAt ==
    /\ pc = "constructed"
    /\ \E x \in EvalXs :
          last' = [op |-> "eval_at", self |-> p, x |-> x, out |-> eval_at(p, x)]
    /\ pc' = "done"
    /\ p' = p

Next == New \/ InterpolateFrom \/ Add \/ Mul \/ EvalAt

\* Callers that keep the documented preconditions.
Spec == Init /\ [][Next]_vars

\* Calls outside the documented preconditions: an empty coefficient vector,
\* no points, points that share an x-coordinate.
NewEmpty ==
    /\ pc = "start"
    /\ p' = new(<<>>)
    /\ last' = [op |-> "new", coefs |-> <<>>, out |-> new(<<>>)]
    /\ pc' = "constructed"

InterpolateNone ==
    /\ pc = "start"
    /\ LET r == interpolate_from(<<>>)
       IN  /\ last' = [op |-> "interpolate_from", points |-> <<>>, out |-> r]
           /\ IF IsPanic(r)
              THEN pc' = "panicked" /\ p' = p
              ELSE pc' = "constructed" /\ p' = r

InterpolateDuplicate ==
    /\ pc = "start"
    /\ \E points \in DuplicatePoints :
          LET r == interpolate_from(points)
          IN  /\ last' = [op |-> "interpolate_from", points |-> points, out |-> r]
              /\ IF IsPanic(r)
                 THEN pc' = "panicked" /\ p' = p
                 ELSE pc' = "constructed" /\ p' = r

NextAny == Next \/ NewEmpty \/ InterpolateNone \/ InterpolateDuplicate

\* Every caller.
SpecAny == Init /\ [][NextAny]_vars

----------------------------------------------------------------------------
(* What the claims speak of, stated without the loops of the code *)

IsPoly(r) == "coefs_" \in DOMAIN r
ZeroPoly == Polynomial(<<Zero>>)

\* Normal form: at least one coefficient, and no trailing zero unless alone.
NormalForm(c) == Len(c) >= 1 /\ (Len(c) = 1 \/ c[Len(c)] # Zero)

\* t is s without its maximal run of trailing zeros, the first element kept.
IsTrimOf(t, s) ==
    \E k \in 1..Len(s) :
        /\ t = SubSeq(s, 1, k)
        /\ \A i \in (k + 1)..Len(s) : s[i] = Zero
        /\ (k = 1 \/ s[k] # Zero)

CoefAt(c, i) == IF i \in 1..Len(c) THEN c[i] ELSE Zero

PointwiseSum(a, b) == [i \in 1..Max(Len(a), Len(b)) |-> CoefAt(a, i) + CoefAt(b, i)]

Negation(c) == [i \in 1..Len(c) |-> -c[i]]

\* Sum over i in 1..n of a[i] * b[k + 1 - i], the terms with i + j = k (0-based).
RECURSIVE ConvolutionAt(_, _, _, _)
ConvolutionAt(a, b, k, n) ==
    IF n < 1 THEN Zero
    ELSE ConvolutionAt(a, b, k, n - 1) + a[n] * CoefAt(b, k + 1 - n)

Convolution(a, b) == [k \in 1..(Len(a) + Len(b) - 1) |-> ConvolutionAt(a, b, k, Len(a))]

RECURSIVE Power(_, _)
Power(x, n) == IF n = 0 THEN One ELSE x * Power(x, n - 1)

\* Sum over i in 1..n of c[i] * x^(i-1).
RECURSIVE PowerSum(_, _, _)
PowerSum(c, x, n) == IF n < 1 THEN Zero ELSE PowerSum(c, x, n - 1) + c[n] * Power(x, n - 1)

----------------------------------------------------------------------------
(* Claims *)

\* C1: every Polynomial reached through new (on a non-empty vector), add, mul
\* and interpolate_from (on non-empty points with distinct x) is in normal
\* form: at least one coefficient, and a non-zero last one unless it is alone.
C1_NormalFormInvariant ==
    /\ pc \in {"constructed", "done"} => IsPoly(p) /\ NormalForm(p.coefs_)
    /\ last.op \in {"new", "interpolate_from", "add", "mul"} =>
          IsPoly(last.out) /\ NormalForm(last.out.coefs_)

\* An addition of two three-coefficient polynomials that collapsed to one.
C1_Witness ==
    /\ last.op = "add"
    /\ Len(last.self.coefs_) = 3
    /\ Len(last.other.coefs_) = 3
    /\ Len(p.coefs_) = 1

\* C2: new(s) holds s without its maximal run of trailing zeros, the first
\* element never dropped; a one-element s is kept as is, an all-zero s gives [0].
C2_NewTrimsTrailingZeros ==
    (last.op = "new" /\ Len(last.coefs) >= 1) =>
        /\ IsTrimOf(last.out.coefs_, last.coefs)
        /\ Len(last.coefs) = 1 => last.out.coefs_ = last.coefs
        /\ (\A i \in 1..Len(last.coefs) : last.coefs[i] = Zero) => last.out = ZeroPoly

\* new on a vector whose leading zero is kept and whose trailing zero is dropped.
C2_Witness ==
    /\ last.op = "new"
    /\ Len(last.coefs) = 3
    /\ last.coefs[1] = Zero /\ last.coefs[2] # Zero /\ last.coefs[3] = Zero
    /\ last.out.coefs_ = <<Zero, last.coefs[2]>>

\* C3: for non-empty points with distinct x over an integer scalar,
\* eval_at(interpolate_from(points), x_i) = y_i for every point.
C3_RoundTrip ==
    (last.op = "interpolate_from" /\ Len(last.points) >= 1
        /\ ~HasDuplicateX(last.points)) =>
        /\ IsPoly(last.out)
        /\ \A i \in 1..Len(last.points) :
              eval_at(last.out, last.points[i][1]) = last.points[i][2]

\* C4: add(a, b) is the normal form of the coefficient-wise sum padded with
\* zeros; it is no longer than the longer operand, commutes, has [0] as its
\* identity, and a polynomial plus its negation is exactly [0].
C4_AddIsNormalizedPointwiseSum ==
    last.op = "add" =>
        LET a == last.self
            b == last.other
        IN  /\ IsTrimOf(last.out.coefs_, PointwiseSum(a.coefs_, b.coefs_))
            /\ Len(last.out.coefs_) <= Max(Len(a.coefs_), Len(b.coefs_))
            /\ add(b, a) = last.out
            /\ b = ZeroPoly => last.out = a
            /\ b.coefs_ = Negation(a.coefs_) => last.out = ZeroPoly

\* A polynomial of degree two added to its negation.
C4_Witness ==
    /\ last.op = "add"
    /\ Len(last.self.coefs_) = 3
    /\ last.other.coefs_ = Negation(last.self.coefs_)
    /\ last.out = ZeroPoly

\* C5: mul(a, b) is the normal form of the convolution of length
\* len(a) + len(b) - 1; it commutes, and mul(p, [0]) = [0].
C5_MulIsNormalizedConvolution ==
    (last.op = "mul" /\ Len(last.self.coefs_) >= 1) =>
        LET a == last.self
            b == last.other
        IN  /\ IsTrimOf(last.out.coefs_, Convolution(a.coefs_, b.coefs_))
            /\ mul(b, a) = last.out
            /\ b = ZeroPoly => last.out = ZeroPoly

\* A product of two polynomials of degree two whose middle coefficient sums
\* three non-zero products.
C5_Witness ==
    /\ last.op = "mul"
    /\ Len(last.self.coefs_) = 3
    /\ Len(last.other.coefs_) = 3
    /\ Len(last.out.coefs_) = 5
    /\ \A i \in 1..3 : last.self.coefs_[i] # Zero /\ last.other.coefs_[i] # Zero

\* C6: eval_at(p, x) is the sum of c_i * x^i; eval_at([0], x) = 0 and
\* eval_at(p, 0) = c_0.
C6_EvalIsPowerSum ==
    (last.op = "eval_at" /\ Len(last.self.coefs_) >= 1) =>
        /\ last.out = PowerSum(last.self.coefs_, last.x, Len(last.self.coefs_))
        /\ last.self = ZeroPoly => last.out = Zero
        /\ last.x = Zero => last.out = last.self.coefs_[1]

\* A polynomial of degree two evaluated away from 0 and 1.
C6_Witness ==
    /\ last.op = "eval_at"
    /\ Len(last.self.coefs_) = 3
    /\ last.self.coefs_[2] # Zero
    /\ last.x = -2
    /\ last.out # last.self.coefs_[1]

\* C7: over an integer scalar, interpolate_from on points two of which share
\* an x-coordinate fails by division by zero and returns no Polynomial.
C7_DuplicateXFails ==
    (last.op = "interpolate_from" /\ HasDuplicateX(last.points)) =>
        /\ last.out = DivideByZero
        /\ pc = "panicked"
        /\ p = NoPoly

\* interpolate_from was called on points sharing an x-coordinate.
C7_Witness ==
    /\ last.op = "interpolate_from"
    /\ Len(last.points) = 2
    /\ last.points[1][1] = last.points[2][1]
    /\ last.points[1][2] # last.points[2][2]
    /\ IsPanic(last.out)

\* C8: new on an empty coefficient vector fails (an arithmetic underflow in
\* length - count) and returns no Polynomial, so none with an empty
\* coefficient sequence is ever produced.
C8_NewEmptyFails ==
    /\ (last.op = "new" /\ last.coefs = <<>>) => IsPanic(last.out)
    /\ IsPoly(p) => Len(p.coefs_) >= 1

\* C9: interpolate_from on no points returns the zero polynomial [0].
C9_NoPointsGivesZero ==
    (last.op = "interpolate_from" /\ last.points = <<>>) =>
        /\ last.out = ZeroPoly
        /\ pc = "constructed"
        /\ p = ZeroPoly

\* interpolate_from was called on the empty list and returned.
C9_Witness ==
    /\ last.op = "interpolate_from"
    /\ Len(last.points) = 0
    /\ IsPoly(last.out)

\* C10: evaluation commutes with mul and add:
\* eval_at(mul(a, b), x) = eval_at(a, x) * eval_at(b, x) and
\* eval_at(add(a, b), x) = eval_at(a, x) + eval_at(b, x).
C10_EvalIsHomomorphism ==
    /\ last.op = "mul" =>
          \A x \in EvalXs :
              eval_at(last.out, x) = eval_at(last.self, x) * eval_at(last.other, x)
    /\ last.op = "add" =>
          \A x \in EvalXs :
              eval_at(last.out, x) = eval_at(last.self, x) + eval_at(last.other, x)

\* A sum of two polynomials of degree two that new shortened to degree one.
C10_Witness ==
    /\ last.op = "add"
    /\ Len(last.self.coefs_) = 3
    /\ Len(last.other.coefs_) = 3
    /\ Len(last.out.coefs_) = 2

====
